---- MODULE Spec2Model ----
(***************************************************************************)
(* Runtime object model of kajiki/template.py: the _Template base class   *)
(* (namespace construction, extend, switch stack, with stack, escaping,   *)
(* attribute rendering, the iteration protocol).                          *)
(*                                                                         *)
(* Each group of operations has its own specification over the shared     *)
(* variables; the variables a specification does not use stay at their    *)
(* construction values.                                                    *)
(***************************************************************************)
EXTENDS Integers, Sequences, FiniteSets, TLC

VARIABLES
    \* ---- inheritance: one render, a chain of instances 1 (outermost) .. instances
    instances,      \* number of template instances created in this render
    __methods__,    \* __methods__[i]: block names exposed by the class of instance i
    _context,       \* keys bound by the caller-supplied context (shared by the chain)
    __globals__,    \* __globals__[i]: the namespace of instance i (name -> value)
    attrs,          \* attrs[i]: block attributes set on instance i with setattr
    \* ---- switch stack of one instance
    _switch_stack,  \* self._switch_stack
    case_result,    \* the last _case call: its argument, what it returned, the stack it ran on
    switch_marks,   \* history: per unmatched push, the value pushed and the stack before it
    \* ---- with stack of one instance
    _with_stack,    \* self._with_stack
    with_args,      \* history: the (locals_, vars) of each frame still on the stack
    pop_result,     \* what the last _pop_with returned
    \* ---- escaping
    esc_value,      \* the value handed to _escape
    esc_result,     \* what _escape returned: first for esc_value, then for its own result
    \* ---- attribute rendering
    ra_attrs,       \* the attrs argument: a sequence of (name, value) pairs
    ra_mode,        \* the mode argument
    ra_out,         \* the fragments _render_attrs yielded ("pending" before the call)
    \* ---- iteration protocol
    main_chunks,    \* what the instance's __main__ yields, in order
    gens,           \* generator objects returned by __iter__: [started, pos, done, out]
    main_calls,     \* how many times __main__ has been called
    gen_op          \* the last operation of the iteration protocol and what it returned

inhVars    == <<instances, __methods__, _context, __globals__, attrs>>
switchVars == <<_switch_stack, case_result, switch_marks>>
withVars   == <<_with_stack, with_args, pop_result>>
escVars    == <<esc_value, esc_result>>
raVars     == <<ra_attrs, ra_mode, ra_out>>
genVars    == <<main_chunks, gens, main_calls, gen_op>>
vars       == <<inhVars, switchVars, withVars, escVars, raVars, genVars>>

\* ------------------------------------------------------------------ bounds
MaxInstances == 3
MaxContext   == 1

\* ------------------------------------------------------------ inheritance
\* Block names templates expose, besides the main block.
Blocks == {"header", "footer"}
MainBlock == "__main__"
LinkNames == {"self", "local", "parent", "child"}
Names == Blocks \cup {MainBlock} \cup LinkNames

\* Values a namespace entry or an instance attribute can hold.
Absent     == [kind |-> "absent", inst |-> 0, name |-> ""]
Inst(i)    == [kind |-> "inst", inst |-> i, name |-> ""]
\* TplFunc of block k of the class of instance i, bound to instance i.
Func(i, k) == [kind |-> "func", inst |-> i, name |-> k]
\* TplFunc wrapping the trampoline for name k, bound to instance i.
Tramp(i, k) == [kind |-> "tramp", inst |-> i, name |-> k]
\* A value supplied by the caller's context under key k.
Ctx(k)     == [kind |-> "ctx", inst |-> 0, name |-> k]

isTplFunc(v) == v.kind \in {"func", "tramp"}

\* _Template.__init__: the namespace. local and self first, then every exposed
\* function of the class, last the context (which shadows what is there).
InitGlobals(i, meths, ctx) ==
    LET g0 == [k \in Names |-> IF k \in {"local", "self"} THEN Inst(i) ELSE Absent]
        g1 == [k \in Names |-> IF k \in meths THEN Func(i, k) ELSE g0[k]]
    IN  [k \in Names |-> IF k \in ctx THEN Ctx(k) ELSE g1[k]]

\* _Template.__init__: setattr(self, k, v) for every exposed function.
InitAttrs(i, meths) ==
    [k \in Names |-> IF k \in meths THEN Func(i, k) ELSE Absent]

\* Variant: an override only fills a name the parent does not define itself.
FindOverridesKeepingParent(cg, pg) ==
    [k \in Names |->
        IF k # MainBlock /\ isTplFunc(cg[k]) /\ pg[k] = Absent THEN cg[k] ELSE pg[k]]

\* _extend, first loop: the child's TplFuncs replace the parent's entries.
FindOverrides(cg, pg) ==
    [k \in Names |->
        IF k # MainBlock /\ isTplFunc(cg[k]) THEN cg[k] ELSE pg[k]]

\* _extend, second loop, namespace half: the parent's TplFuncs the child's
\* namespace lacks are added to it.
FindInherited(cg, pg) ==
    [k \in Names |->
        IF k # MainBlock /\ isTplFunc(pg[k]) /\ cg[k] = Absent
        THEN pg[k] ELSE cg[k]]

\* Variant: the attribute is the parent's entry as it is when extend runs,
\* not a trampoline that looks the parent up when called.
InstallFrozen(c, ca, pg) ==
    [k \in Names |->
        IF k # MainBlock /\ isTplFunc(pg[k]) /\ ca[k] = Absent
        THEN pg[k] ELSE ca[k]]

\* _extend, second loop, attribute half: a trampoline for every TplFunc of the
\* parent's namespace the child instance has no attribute for.
InstallTrampolines(c, ca, pg) ==
    [k \in Names |->
        IF k # MainBlock /\ isTplFunc(pg[k]) /\ ca[k] = Absent
        THEN Tramp(c, k) ELSE ca[k]]

\* Variant: the parent's self is the extending instance, not that instance's self.
ParentLinksSelfIsChild(c, p, cg, pg) ==
    [pg EXCEPT !["child"] = Inst(c), !["local"] = Inst(p), !["self"] = Inst(c)]

\* _extend, the parent's cross-links: child, local, self.
ParentLinks(c, p, cg, pg) ==
    [pg EXCEPT !["child"] = Inst(c), !["local"] = Inst(p), !["self"] = cg["self"]]

\* _extend, the child's cross-links: parent, local.
ChildLinks(c, p, cg) ==
    [cg EXCEPT !["parent"] = Inst(p), !["local"] = Inst(c)]

\* Result of calling a value.
Ran(i, k)  == [kind |-> "ran", inst |-> i, name |-> k]
Raised(e)  == [kind |-> "raised", inst |-> 0, name |-> e]

\* TplFunc.__call__: an exposed function runs the block of its class in the
\* namespace of its instance; a trampoline reads `parent` in the namespace of
\* its instance at call time and calls that instance's attribute of the name.
RECURSIVE Call(_)
Call(v) ==
    CASE v.kind = "func"  -> Ran(v.inst, v.name)
      [] v.kind = "tramp" ->
            LET p == __globals__[v.inst]["parent"]
            IN  IF p.kind # "inst" THEN Raised("AttributeError")
                ELSE IF attrs[p.inst][v.name] = Absent THEN Raised("AttributeError")
                ELSE Call(attrs[p.inst][v.name])
      [] OTHER -> Raised("TypeError")

\* A call of name k from a body whose globals are the namespace of instance i.
CallName(i, k) ==
    IF __globals__[i][k] = Absent THEN Raised("NameError")
    ELSE Call(__globals__[i][k])

\* A call of attribute k of instance i.
CallAttr(i, k) ==
    IF attrs[i][k] = Absent THEN Raised("AttributeError")
    ELSE Call(attrs[i][k])

Contexts == {c \in SUBSET (Blocks \cup LinkNames) : Cardinality(c) <= MaxContext}
MethodSets == {m \cup {MainBlock} : m \in SUBSET Blocks}

InhInit ==
    \E meths \in MethodSets, ctx \in Contexts :
        /\ instances = 1
        /\ __methods__ = <<meths>>
        /\ _context = ctx
        /\ __globals__ = <<InitGlobals(1, meths, ctx)>>
        /\ attrs = <<InitAttrs(1, meths)>>

InhIdle ==
    /\ instances = 0
    /\ __methods__ = <<>>
    /\ _context = {}
    /\ __globals__ = <<>>
    /\ attrs = <<>>

\* _extend(parent), called from the main block of instance c: the chain's
\* newest instance. meths are the blocks the parent class exposes.
_extend(c, meths) ==
    /\ c = instances
    /\ instances < MaxInstances
    /\ LET p   == instances + 1
           cg  == __globals__[c]
           pg0 == InitGlobals(p, meths, _context)
           pg1 == FindOverrides(cg, pg0)
           cg1 == FindInherited(cg, pg1)
           ca1 == InstallTrampolines(c, attrs[c], pg1)
           pg2 == ParentLinks(c, p, cg1, pg1)
           cg2 == ChildLinks(c, p, cg1)
       IN  /\ instances' = p
           /\ __methods__' = Append(__methods__, meths)
           /\ __globals__' = Append([__globals__ EXCEPT ![c] = cg2], pg2)
           /\ attrs' = Append([attrs EXCEPT ![c] = ca1], InitAttrs(p, meths))
    /\ UNCHANGED <<_context, switchVars, withVars, escVars, raVars, genVars>>

Next == \E c \in 1..MaxInstances, meths \in MethodSets : _extend(c, meths)

\* --------------------------------------------------------- switch stack
MaxSwitchDepth == 3
MaxSwitchValue == 2
SwitchValues == 0..MaxSwitchValue

NoCase == [called |-> FALSE, obj |-> 0, ret |-> "none", on |-> <<>>]

SwitchInit ==
    /\ _switch_stack = <<>>
    /\ case_result = NoCase
    /\ switch_marks = <<>>

\* list.append
ListAppend(l, x) == Append(l, x)
\* list.pop(): the list without its last element (IndexError on an empty list)
ListPop(l) == SubSeq(l, 1, Len(l) - 1)
\* l[-1]
ListLast(l) == l[Len(l)]

_push_switch(expr) ==
    /\ Len(_switch_stack) < MaxSwitchDepth
    /\ _switch_stack' = ListAppend(_switch_stack, expr)
    /\ switch_marks' = Append(switch_marks, [value |-> expr, before |-> _switch_stack])
    /\ UNCHANGED <<case_result, inhVars, withVars, escVars, raVars, genVars>>

\* On an empty stack list.pop raises IndexError and nothing changes.
_pop_switch ==
    /\ Len(_switch_stack) > 0
    /\ _switch_stack' = ListPop(_switch_stack)
    /\ switch_marks' = SubSeq(switch_marks, 1, Len(switch_marks) - 1)
    /\ UNCHANGED <<case_result, inhVars, withVars, escVars, raVars, genVars>>

\* Variant: the comparison is with the outermost switch, self._switch_stack[0].
CaseReturnOutermost(obj, stack) ==
    IF Len(stack) = 0 THEN "IndexError"
    ELSE IF obj = stack[1] THEN "True" ELSE "False"

\* obj == self._switch_stack[-1]; IndexError on an empty stack.
CaseReturn(obj, stack) ==
    IF Len(stack) = 0 THEN "IndexError"
    ELSE IF obj = ListLast(stack) THEN "True" ELSE "False"

_case(obj) ==
    /\ case_result' = [called |-> TRUE, obj |-> obj,
                        ret |-> CaseReturn(obj, _switch_stack), on |-> _switch_stack]
    /\ UNCHANGED <<_switch_stack, switch_marks, inhVars, withVars, escVars, raVars, genVars>>

SwitchNext ==
    \/ \E e \in SwitchValues : _push_switch(e)
    \/ _pop_switch
    \/ \E o \in SwitchValues : _case(o)

\* ----------------------------------------------------------- with stack
MaxWithDepth == 2
WithNames == {"x", "y"}
\* Python values a local can hold; "()" is the empty tuple.
WithValues == {"()", "5"}
\* A name the locals mapping does not hold.
Unbound == "<unbound>"
LocalsSets == [WithNames -> WithValues \cup {Unbound}]
VarLists == {<<>>, <<"x">>, <<"x", "y">>, <<"y", "x">>}

NoPop == [called |-> FALSE, ret |-> <<>>]

WithInit ==
    /\ _with_stack = <<>>
    /\ with_args = <<>>
    /\ pop_result = NoPop

\* locals_.get(k, ())
DictGet(locals_, k) == IF locals_[k] = Unbound THEN "()" ELSE locals_[k]

\* [locals_.get(k, ()) for k in vars]
Captured(locals_, vs) == [j \in 1..Len(vs) |-> DictGet(locals_, vs[j])]

_push_with(locals_, vs) ==
    /\ Len(_with_stack) < MaxWithDepth
    /\ _with_stack' = ListAppend(_with_stack, Captured(locals_, vs))
    /\ with_args' = Append(with_args, [locals_ |-> locals_, vars |-> vs])
    /\ UNCHANGED <<pop_result, inhVars, switchVars, escVars, raVars, genVars>>

\* On an empty stack list.pop raises IndexError and nothing changes.
_pop_with ==
    /\ Len(_with_stack) > 0
    /\ pop_result' = [called |-> TRUE, ret |-> ListLast(_with_stack)]
    /\ _with_stack' = ListPop(_with_stack)
    /\ with_args' = SubSeq(with_args, 1, Len(with_args) - 1)
    /\ UNCHANGED <<inhVars, switchVars, escVars, raVars, genVars>>

WithNext ==
    \/ \E l \in LocalsSets, vs \in VarLists : _push_with(l, vs)
    \/ _pop_with

\* -------------------------------------------------------- Python values
\* A value with the text str() gives for it; num is its number when it is a
\* bool or an int. flattener: an instance of util.flattener; html: an object
\* with an __html__ method returning text.
PyNone       == [kind |-> "none", num |-> 0, text |-> <<"N", "o", "n", "e">>]
PyTrue       == [kind |-> "bool", num |-> 1, text |-> <<"T", "r", "u", "e">>]
PyFalse      == [kind |-> "bool", num |-> 0, text |-> <<"F", "a", "l", "s", "e">>]
Digit(n)     == CASE n = 0 -> "0" [] n = 1 -> "1" [] OTHER -> "2"
PyInt(n)     == [kind |-> "int", num |-> n, text |-> <<Digit(n)>>]
PyText(s)    == [kind |-> "str", num |-> 0, text |-> s]
Flattener(s) == [kind |-> "flattener", num |-> 0, text |-> s]
Markup(s)    == [kind |-> "html", num |-> 0, text |-> s]

\* str(value)
Str(v) == v.text
\* a == b: a bool and an int are equal when their numbers are.
PyEq(a, b) ==
    IF a.kind \in {"bool", "int"} /\ b.kind \in {"bool", "int"}
    THEN a.num = b.num ELSE a = b
\* bool(value) of a bool or an int
Truthy(v) == v.num # 0

\* ------------------------------------------------------------- escaping
MaxTextLen == 3
MaxEscapes == 2
EscChars == {"&", "<", ">", "\"", "'", "a"}
Texts == UNION {[1..n -> EscChars] : n \in 0..MaxTextLen}

\* str.replace(old, new) for a one-character old
RECURSIVE Replace(_, _, _)
Replace(s, old, new) ==
    IF s = <<>> THEN <<>>
    ELSE (IF Head(s) = old THEN new ELSE <<Head(s)>>) \o Replace(Tail(s), old, new)

\* _re_escape.search(uval)
ReSearch(uval) == \E j \in 1..Len(uval) : uval[j] \in {"&", "<", ">", "\""}

Amp  == <<"&", "a", "m", "p", ";">>
Lt   == <<"&", "l", "t", ";">>
Gt   == <<"&", "g", "t", ";">>
Quot == <<"&", "q", "u", "o", "t", ";">>

\* Variant: the ampersand is replaced last, after the entities were written.
ReplaceAllAmpLast(uval) ==
    Replace(Replace(Replace(Replace(uval, "<", Lt), ">", Gt), "\"", Quot), "&", Amp)

\* uval.replace('&', '&amp;').replace('<', '&lt;').replace('>', '&gt;').replace('"', '&quot;')
ReplaceAll(uval) ==
    Replace(Replace(Replace(Replace(uval, "&", Amp), "<", Lt), ">", Gt), "\"", Quot)

_escape(value) ==
    IF value.kind = "none" \/ value.kind = "flattener" THEN value
    ELSE IF value.kind = "html" THEN PyText(value.text)
    ELSE LET uval == Str(value)
         IN  IF ReSearch(uval) THEN PyText(ReplaceAll(uval)) ELSE PyText(uval)

EscValues ==
    {PyNone, PyInt(1)} \cup {PyText(t) : t \in Texts}
        \cup {Flattener(<<"<">>), Markup(<<"<", "a", ">">>)}

EscInit ==
    /\ esc_value \in EscValues
    /\ esc_result = <<>>

EscIdle ==
    /\ esc_value = PyNone
    /\ esc_result = <<>>

\* _escape applied to the value, then to what it returned.
Escape ==
    /\ Len(esc_result) < MaxEscapes
    /\ esc_result' = Append(esc_result,
            _escape(IF esc_result = <<>> THEN esc_value ELSE esc_result[Len(esc_result)]))
    /\ UNCHANGED <<esc_value, inhVars, switchVars, withVars, raVars, genVars>>

EscNext == Escape

\* -------------------------------------------------- attribute rendering
MaxAttrs == 2
\* Attribute names, in the order str comparison gives them (by code point).
NameOrder == <<"CHECKED", "a", "b", "checked">>
AttrNames == {NameOrder[j] : j \in 1..Len(NameOrder)}
NameRank(n) == CHOOSE j \in 1..Len(NameOrder) : NameOrder[j] = n
NameChars(n) ==
    CASE n = "CHECKED" -> <<"C", "H", "E", "C", "K", "E", "D">>
      [] n = "checked" -> <<"c", "h", "e", "c", "k", "e", "d">>
      [] OTHER -> <<n>>
\* str.lower()
Lower(n) == IF n = "CHECKED" THEN "checked" ELSE n

\* html_utils.HTML_EMPTY_ATTRS: the names of the boolean-style HTML attributes.
HTML_EMPTY_ATTRS == {"checked"}

AttrValues ==
    {PyNone, PyTrue, PyFalse, PyInt(0), PyInt(1), PyText(<<"<">>), PyText(<<"v">>)}
Modes == {<<"h", "t", "m", "l">>, <<"h", "t", "m", "l", "5">>, <<"x", "m", "l">>}

\* mode.startswith('html')
StartsWithHtml(mode) ==
    Len(mode) >= 4 /\ SubSeq(mode, 1, 4) = <<"h", "t", "m", "l">>

\* (k1, v1) < (k2, v2) for pairs with distinct names
PairLess(a, b) == NameRank(a[1]) < NameRank(b[1])

\* sorted(attrs), by insertion
RECURSIVE Insert(_, _)
Insert(x, l) ==
    IF l = <<>> THEN <<x>>
    ELSE IF PairLess(x, Head(l)) THEN <<x>> \o l
    ELSE <<Head(l)>> \o Insert(x, Tail(l))
\* Variant: the pairs are taken in the order the input presents them.
unsorted(l) == l
RECURSIVE sorted(_)
sorted(l) == IF l = <<>> THEN <<>> ELSE Insert(Head(l), sorted(Tail(l)))

\* if k in HTML_EMPTY_ATTRS and v in (True, False): v = k if v else None
Rewritten(k, v) ==
    IF k \in HTML_EMPTY_ATTRS /\ (PyEq(v, PyTrue) \/ PyEq(v, PyFalse))
    THEN (IF Truthy(v) THEN PyText(NameChars(k)) ELSE PyNone)
    ELSE v

\* The body of the loop for one pair: the fragments it yields (none or one).
RenderPair(k, v0, mode) ==
    LET v == Rewritten(k, v0)
    IN  IF v.kind = "none" THEN <<>>
        ELSE IF StartsWithHtml(mode) /\ k \in HTML_EMPTY_ATTRS
             THEN << <<" ">> \o NameChars(Lower(k)) >>
        ELSE << <<" ">> \o NameChars(k) \o <<"=", "\"">> \o Str(_escape(v)) \o <<"\"">> >>

RECURSIVE RenderPairs(_, _)
RenderPairs(l, mode) ==
    IF l = <<>> THEN <<>>
    ELSE RenderPair(Head(l)[1], Head(l)[2], mode) \o RenderPairs(Tail(l), mode)

\* _render_attrs(attrs, mode), consumed to the end. a.none: attrs is None.
_render_attrs(a, mode) ==
    IF a.none THEN <<>> ELSE RenderPairs(sorted(a.items), mode)

\* Sequences of pairs with distinct names: a mapping's items in the order its
\* iteration presents them, or a sequence of pairs.
PairLists ==
    UNION {{l \in [1..n -> AttrNames \X AttrValues] :
                \A i, j \in 1..n : i # j => l[i][1] # l[j][1]} : n \in 0..MaxAttrs}

Pending == [done |-> FALSE, frags |-> <<>>]

RaInit ==
    /\ ra_attrs \in {[none |-> TRUE, items |-> <<>>]}
                        \cup {[none |-> FALSE, items |-> l] : l \in PairLists}
    /\ ra_mode \in Modes
    /\ ra_out = Pending

RaIdle ==
    /\ ra_attrs = [none |-> TRUE, items |-> <<>>]
    /\ ra_mode = <<"x", "m", "l">>
    /\ ra_out = Pending

RenderAttrs ==
    /\ ~ra_out.done
    /\ ra_out' = [done |-> TRUE, frags |-> _render_attrs(ra_attrs, ra_mode)]
    /\ UNCHANGED <<ra_attrs, ra_mode, inhVars, switchVars, withVars, escVars, genVars>>

RaNext == RenderAttrs

\* --------------------------------------------------- iteration protocol
MaxChunks    == 2
MaxGens      == 2
MaxMainCalls == 3
ChunkValues  == {PyText(<<"a">>), PyInt(1)}
ChunkLists   == UNION {[1..n -> ChunkValues] : n \in 0..MaxChunks}

NewGen  == [started |-> FALSE, pos |-> 0, done |-> FALSE, out |-> <<>>]
StopIteration == [stop |-> TRUE, text |-> <<>>]
Yielded(t)    == [stop |-> FALSE, text |-> t]
NoOp == [op |-> "none", gen |-> 0, was_done |-> FALSE, ret |-> StopIteration]

GenInit ==
    /\ main_chunks \in ChunkLists
    /\ gens = <<>>
    /\ main_calls = 0
    /\ gen_op = NoOp

GenIdle ==
    /\ main_chunks = <<>>
    /\ gens = <<>>
    /\ main_calls = 0
    /\ gen_op = NoOp

\* Variant: a finished generator starts over when asked again.
GenNextRestarting(g, chunks) ==
    IF g.done /\ Len(chunks) > 0
    THEN [gen |-> [g EXCEPT !.done = FALSE, !.pos = 1,
                            !.out = Append(@, Str(chunks[1]))],
          ret |-> Yielded(Str(chunks[1]))]
    ELSE IF g.done THEN [gen |-> g, ret |-> StopIteration]
    ELSE IF g.pos < Len(chunks)
         THEN [gen |-> [g EXCEPT !.started = TRUE, !.pos = @ + 1,
                                 !.out = Append(@, Str(chunks[g.pos + 1]))],
               ret |-> Yielded(Str(chunks[g.pos + 1]))]
    ELSE [gen |-> [g EXCEPT !.started = TRUE, !.done = TRUE], ret |-> StopIteration]

\* One next() on a generator made by __iter__, with main yielding chunks: the
\* generator after it and what next() returned. A finished generator raises
\* StopIteration and stays as it is.
GenNext(g, chunks) ==
    IF g.done THEN [gen |-> g, ret |-> StopIteration]
    ELSE IF g.pos < Len(chunks)
         THEN [gen |-> [g EXCEPT !.started = TRUE, !.pos = @ + 1,
                                 !.out = Append(@, Str(chunks[g.pos + 1]))],
               ret |-> Yielded(Str(chunks[g.pos + 1]))]
    ELSE [gen |-> [g EXCEPT !.started = TRUE, !.done = TRUE], ret |-> StopIteration]

\* Whether this next() is the one that calls self.__main__(): the first one.
DrivesMain(g) == ~g.started /\ ~g.done

\* iter(instance): a new generator; its body has not started.
__iter__ ==
    /\ Len(gens) < MaxGens
    /\ gens' = Append(gens, NewGen)
    /\ gen_op' = [op |-> "iter", gen |-> Len(gens) + 1, was_done |-> FALSE,
                  ret |-> StopIteration]
    /\ UNCHANGED <<main_chunks, main_calls, inhVars, switchVars, withVars, escVars, raVars>>

\* next(gens[g])
next(g) ==
    /\ g \in 1..Len(gens)
    /\ DrivesMain(gens[g]) => main_calls < MaxMainCalls
    /\ LET r == GenNext(gens[g], main_chunks)
       IN  /\ gens' = [gens EXCEPT ![g] = r.gen]
           /\ gen_op' = [op |-> "next", gen |-> g, was_done |-> gens[g].done,
                         ret |-> r.ret]
    /\ main_calls' = IF DrivesMain(gens[g]) THEN main_calls + 1 ELSE main_calls
    /\ UNCHANGED <<main_chunks, inhVars, switchVars, withVars, escVars, raVars>>

RECURSIVE Join(_)
Join(l) == IF l = <<>> THEN <<>> ELSE Head(l) \o Join(Tail(l))

\* render(): ''.join(self), a fresh generator consumed to its end.
render ==
    /\ main_calls < MaxMainCalls
    /\ main_calls' = main_calls + 1
    /\ gen_op' = [op |-> "render", gen |-> 0, was_done |-> FALSE,
                  ret |-> Yielded(Join([j \in 1..Len(main_chunks) |-> Str(main_chunks[j])]))]
    /\ UNCHANGED <<main_chunks, gens, inhVars, switchVars, withVars, escVars, raVars>>

GenNextStep ==
    \/ __iter__
    \/ \E g \in 1..MaxGens : next(g)
    \/ render

\* ------------------------------------------------------- specifications
Init       == InhInit /\ SwitchInit /\ WithInit /\ EscIdle /\ RaIdle /\ GenIdle
Spec       == Init /\ [][Next]_vars

SwitchSpecInit == InhIdle /\ SwitchInit /\ WithInit /\ EscIdle /\ RaIdle /\ GenIdle
SpecSwitch == SwitchSpecInit /\ [][SwitchNext]_vars
SpecWith   == SwitchSpecInit /\ [][WithNext]_vars

EscSpecInit == InhIdle /\ SwitchInit /\ WithInit /\ EscInit /\ RaIdle /\ GenIdle
SpecEscape == EscSpecInit /\ [][EscNext]_vars

RaSpecInit == InhIdle /\ SwitchInit /\ WithInit /\ EscIdle /\ RaInit /\ GenIdle
SpecAttrs  == RaSpecInit /\ [][RaNext]_vars

GenSpecInit == InhIdle /\ SwitchInit /\ WithInit /\ EscIdle /\ RaIdle /\ GenInit
SpecRender == GenSpecInit /\ [][GenNextStep]_vars

\* ------------------------------------------------ properties: inheritance
\* Instance 1 is the outermost (most derived) template; instance c + 1 is the
\* parent instance c extended.
Min(S) == CHOOSE x \in S : \A y \in S : x <= y
Definers(k) == {j \in 1..instances : k \in __methods__[j]}
DefinersBelow(c, k) == {j \in 1..(c - 1) : k \in __methods__[j]}

\* C1: for a block name the context does not bind, every exposed function bound
\* in a child's namespace is the entry of that name in its parent's namespace, so
\* a call of the name from the parent's body runs what the child's namespace
\* holds; and in a chain the name resolves, in the namespace of the most-derived
\* template that defines it and of every ancestor of that template, to that
\* most-derived definition.
C1_OverrideReachesEveryAncestor ==
    \A k \in Blocks \ _context :
        /\ \A c \in 1..(instances - 1) :
              isTplFunc(__globals__[c][k]) =>
                  /\ __globals__[c + 1][k] = __globals__[c][k]
                  /\ CallName(c + 1, k) = Call(__globals__[c][k])
        /\ Definers(k) # {} =>
              \A i \in Min(Definers(k))..instances :
                  /\ __globals__[i][k] = Func(Min(Definers(k)), k)
                  /\ CallName(i, k) = Ran(Min(Definers(k)), k)

\* C1 witness: a chain of three in which every template defines header, and the
\* grandparent's namespace resolves header to the outermost template's block.
C1_Witness ==
    /\ instances = 3
    /\ _context = {}
    /\ \A i \in 1..3 : "header" \in __methods__[i]
    /\ CallName(3, "header") = Ran(1, "header")
    /\ CallName(2, "header") = Ran(1, "header")

\* C2 as stated, taken in the case most favourable to it, a context that binds
\* nothing: a child that does not define a block its parent defines has, after
\* extend, the name bound in its namespace and callable as an attribute, and
\* both calls run the parent's block, also when a grandchild extended the child
\* earlier.
C2_BothCallsRunParentBlock ==
    \A c \in 1..(instances - 1) : \A k \in Blocks :
        (_context = {} /\ k \notin __methods__[c] /\ k \in __methods__[c + 1]) =>
            /\ __globals__[c][k] # Absent
            /\ CallAttr(c, k) = Ran(c + 1, k)
            /\ CallName(c, k) = Ran(c + 1, k)

\* C2 amended: provided the context does not bind the name, it is bound in the
\* child's namespace and callable as an attribute of the child; the attribute
\* call runs the parent's block; the call by name runs the parent's block when
\* no template the child descends to (grandchild, ...) defines the name, and
\* otherwise the block of the most derived of those.
C2_PassThrough ==
    \A c \in 1..(instances - 1) : \A k \in Blocks \ _context :
        (k \notin __methods__[c] /\ k \in __methods__[c + 1]) =>
            /\ __globals__[c][k] # Absent
            /\ attrs[c][k] = Tramp(c, k)
            /\ CallAttr(c, k) = Ran(c + 1, k)
            /\ CallName(c, k) =
                  IF DefinersBelow(c, k) = {} THEN Ran(c + 1, k)
                  ELSE Ran(Min(DefinersBelow(c, k)), k)

\* C2 witness: a grandchild that defines footer extended a child that does not,
\* and the child extended a parent that does; the child's attribute runs the
\* parent's footer and the name runs the grandchild's.
C2_Witness ==
    /\ instances = 3
    /\ _context = {}
    /\ "footer" \in __methods__[1]
    /\ "footer" \notin __methods__[2]
    /\ "footer" \in __methods__[3]
    /\ CallAttr(2, "footer") = Ran(3, "footer")
    /\ CallName(2, "footer") = Ran(1, "footer")

\* C3: when the context binds none of self, local, parent, child, every instance
\* of the chain has self = the outermost instance and local = itself, every
\* child has parent = the instance its extend returned, and that instance has
\* child = the child.
C3_CrossLinks ==
    (_context \cap LinkNames = {}) =>
        \A i \in 1..instances :
            /\ __globals__[i]["self"] = Inst(1)
            /\ __globals__[i]["local"] = Inst(i)
            /\ i < instances =>
                  /\ __globals__[i]["parent"] = Inst(i + 1)
                  /\ __globals__[i + 1]["child"] = Inst(i)

\* C3 witness: a chain of three with no link name in the context, whose last
\* parent sees the outermost instance as self.
C3_Witness ==
    /\ instances = 3
    /\ _context \cap LinkNames = {}
    /\ __globals__[3]["self"] = Inst(1)
    /\ __globals__[3]["local"] = Inst(3)
    /\ __globals__[2]["parent"] = Inst(3)

\* C10: in a chain C (1) extends B (2) extends A (3), with an empty context, a
\* block only A defines is bound in C's namespace and callable as an attribute
\* of C, and the call runs A's block.
C10_BorrowThroughChain ==
    (instances = 3 /\ _context = {}) =>
        \A k \in Blocks :
            (k \in __methods__[3] /\ k \notin __methods__[2] /\ k \notin __methods__[1]) =>
                /\ __globals__[1][k] # Absent
                /\ CallName(1, k) = Ran(3, k)
                /\ CallAttr(1, k) = Ran(3, k)

\* ------------------------------------------------ properties: rendering
\* C4: the sequence __iter__ returns is single-pass. A next() on a sequence
\* that was consumed to its end returns nothing more, leaves what the sequence
\* emitted as it was, leaves the sequence finished and does not call the main
\* block; and no other operation changes a finished sequence.
C4_SinglePass ==
    [][\A g \in 1..Len(gens) :
          gens[g].done =>
              /\ gens'[g] = gens[g]
              /\ (gen_op'.op = "next" /\ gen_op'.gen = g) =>
                    /\ gen_op'.ret = StopIteration
                    /\ main_calls' = main_calls]_vars

\* C4 witness: a sequence that emitted two fragments was consumed to its end and
\* then asked again; the second consumption returned nothing and main ran once.
C4_Witness ==
    /\ Len(main_chunks) = 2
    /\ gen_op.op = "next"
    /\ gen_op.was_done
    /\ gen_op.ret = StopIteration
    /\ gens[gen_op.gen].done
    /\ Len(gens[gen_op.gen].out) = 2
    /\ main_calls = 1

\* ---------------------------------------------- properties: switch stack
Front(l) == SubSeq(l, 1, Len(l) - 1)

\* C5: the stack is always the values of the pushes not yet popped, oldest
\* first; a case call leaves the stack unchanged and, while a switch is active,
\* returns true exactly when its argument equals the value of the most recent
\* such push; a pop restores the stack to what it was before the push it matches.
C5_SwitchDiscipline ==
    [][/\ _switch_stack' = [j \in 1..Len(switch_marks') |-> switch_marks'[j].value]
       /\ case_result' # case_result =>
             /\ _switch_stack' = _switch_stack
             /\ Len(switch_marks) > 0 =>
                   /\ case_result'.ret \in {"True", "False"}
                   /\ (case_result'.ret = "True") <=>
                         (case_result'.obj = switch_marks[Len(switch_marks)].value)
       /\ Len(switch_marks') < Len(switch_marks) =>
             _switch_stack' = switch_marks[Len(switch_marks)].before]_vars

\* C5 witness: with two switches active, a case whose argument equals the outer
\* value and not the inner one returned false.
C5_Witness ==
    /\ case_result.called
    /\ Len(case_result.on) = 2
    /\ case_result.on = _switch_stack
    /\ case_result.obj = case_result.on[1]
    /\ case_result.obj # case_result.on[2]
    /\ case_result.ret = "False"

\* ------------------------------------------------ properties: with stack
\* C6: every list on the stack holds, for each name of its push in order, the
\* value the name was bound to or the unset sentinel, and it is the sentinel
\* exactly when the name was unset, so that the caller can tell a name that was
\* unset from a name that was bound, whatever its value.
C6_FramesTellUnsetFromBound ==
    \A f \in 1..Len(_with_stack) :
        LET a == with_args[f]
        IN  /\ Len(_with_stack[f]) = Len(a.vars)
            /\ \A j \in 1..Len(a.vars) :
                  /\ a.locals_[a.vars[j]] # Unbound =>
                        _with_stack[f][j] = a.locals_[a.vars[j]]
                  /\ (_with_stack[f][j] = "()") <=> (a.locals_[a.vars[j]] = Unbound)

\* The last-in-first-out half of C6, which holds: a pop returns the list the
\* matching push captured and uncovers the stack as it was before that push.
WithPopReturnsMatchingPush ==
    [][Len(with_args') < Len(with_args) =>
          /\ pop_result'.ret =
                Captured(with_args[Len(with_args)].locals_, with_args[Len(with_args)].vars)
          /\ _with_stack' = Front(_with_stack)
          /\ Len(_with_stack') = Len(with_args')]_vars

\* --------------------------------------------------- properties: escaping
\* The image of one character under the escaping map.
CharImage(ch) ==
    CASE ch = "&" -> Amp [] ch = "<" -> Lt [] ch = ">" -> Gt [] ch = "\"" -> Quot
      [] OTHER -> <<ch>>
CharMap(t) == Join([j \in 1..Len(t) |-> CharImage(t[j])])
\* Whether t holds the characters of w in a row.
Contains(t, w) ==
    \E j \in 1..(Len(t) - Len(w) + 1) : SubSeq(t, j, j + Len(w) - 1) = w
\* What the n-th application of _escape was applied to.
EscInput(n) == IF n = 1 THEN esc_value ELSE esc_result[n - 1]

\* C7: applied to text, _escape returns the character-by-character image of the
\* text under & -> &amp;, < -> &lt;, > -> &gt;, " -> &quot;, everything else
\* (the single quote too) unchanged; so text with none of the four characters
\* comes back as it is, and text holding &amp; comes back holding &amp;amp;.
C7_EscapeIsCharMap ==
    \A n \in 1..Len(esc_result) :
        EscInput(n).kind = "str" =>
            /\ esc_result[n] = PyText(CharMap(EscInput(n).text))
            /\ (\A j \in 1..Len(EscInput(n).text) :
                    EscInput(n).text[j] \notin {"&", "<", ">", "\""})
                  => esc_result[n] = EscInput(n)
            /\ Contains(EscInput(n).text, Amp) =>
                  /\ Contains(esc_result[n].text, Amp \o <<"a", "m", "p", ";">>)
                  /\ esc_result[n] # EscInput(n)

\* C7 witness: the text <'& was escaped to &lt;'&amp;, and that, escaped again,
\* to &amp;lt;'&amp;amp;.
C7_Witness ==
    /\ esc_value = PyText(<<"<", "'", "&">>)
    /\ Len(esc_result) = 2
    /\ esc_result[1].text = Lt \o <<"'">> \o Amp
    /\ esc_result[2].text = Amp \o <<"l", "t", ";", "'">> \o Amp \o <<"a", "m", "p", ";">>

\* ----------------------------------------- properties: attribute rendering
Quoted(k, t) == <<" ">> \o NameChars(k) \o <<"=", "\"">> \o t \o <<"\"">>
Bare(k) == <<" ">> \o NameChars(Lower(k))

\* C8: for one pair (k, v): a value of None yields no fragment; for k a
\* boolean-style attribute, False yields no fragment, True yields ' k' in an
\* html mode and ' k="k"' in any other, and a value that is neither True nor
\* False nor None is rendered as it is, not rewritten.
C8_BooleanAttributes ==
    (ra_out.done /\ ~ra_attrs.none /\ Len(ra_attrs.items) = 1) =>
        LET k == ra_attrs.items[1][1]
            v == ra_attrs.items[1][2]
        IN  /\ v = PyNone => ra_out.frags = <<>>
            /\ k \in HTML_EMPTY_ATTRS =>
                  /\ v = PyFalse => ra_out.frags = <<>>
                  /\ v = PyTrue =>
                        ra_out.frags = IF StartsWithHtml(ra_mode) THEN <<Bare(k)>>
                                       ELSE <<Quoted(k, NameChars(k))>>
                  /\ v \notin {PyTrue, PyFalse, PyNone} =>
                        ra_out.frags = IF StartsWithHtml(ra_mode) THEN <<Bare(k)>>
                                       ELSE <<Quoted(k, CharMap(Str(v)))>>

\* The fragments of the pairs taken in ascending order of name.
Ascending(items, mode) ==
    Join([r \in 1..Len(NameOrder) |->
            IF \E j \in 1..Len(items) : items[j][1] = NameOrder[r]
            THEN LET j == CHOOSE j \in 1..Len(items) : items[j][1] = NameOrder[r]
                 IN  RenderPair(items[j][1], items[j][2], mode)
            ELSE <<>>])
Reorderings(items) ==
    {[j \in 1..Len(items) |-> items[q[j]]] : q \in Permutations(1..Len(items))}

\* C9: for pairs with distinct names, the fragments come in ascending order of
\* name, and every other order of the same pairs yields the same fragments.
C9_SortedByName ==
    (ra_out.done /\ ~ra_attrs.none) =>
        /\ ra_out.frags = Ascending(ra_attrs.items, ra_mode)
        /\ \A l \in Reorderings(ra_attrs.items) :
              _render_attrs([none |-> FALSE, items |-> l], ra_mode) = ra_out.frags

\* C9 witness: b presented before a, a rendered before b.
C9_Witness ==
    /\ ra_out.done
    /\ ~ra_attrs.none
    /\ ra_attrs.items = << <<"b", PyText(<<"v">>)>>, <<"a", PyText(<<"<">>)>> >>
    /\ ra_out.frags = <<Quoted("a", Lt), Quoted("b", <<"v">>)>>

====
